---- MODULE Spec2Model ----
(***************************************************************************)
(* Model of the RK6006 Modbus driver (RK6006_module.py): the handle, the   *)
(* device's holding registers, the transport transactions issued by every  *)
(* operation, and the retry behaviour of the register access layer.        *)
(*                                                                         *)
(* Physical values are Python floats in the source.  A float close to the  *)
(* decimal n/res is modelled exactly as the pair [n, e]: its value is      *)
(*      n/res - e / (res * 2^(52 - floor(log2(|n|/res))))                  *)
(* so e is the (signed, integer) binary64 representation error counted in  *)
(* units of the last place, scaled by res.  All operators below work on    *)
(* small integers only.                                                    *)
(***************************************************************************)
EXTENDS Integers, Sequences, FiniteSets, TLC

\* ------------------------------------------------------------------------
\* Program constants
\* ------------------------------------------------------------------------
ExpectedType == 60066
DefaultChunk == 50
RegistersMaxLen == 120
RecursionLimit == 1000
CallerFrames == 2

\* ------------------------------------------------------------------------
\* Bounds of the model
\* ------------------------------------------------------------------------
MaxFail == 2
MaxSets == 2

\* ------------------------------------------------------------------------
\* binary64 arithmetic on the decimal grid
\* ------------------------------------------------------------------------
Pow2(e) == IF e <= 0 THEN 1 ELSE 2 ^ e

Abs(x) == IF x < 0 THEN -x ELSE x

\* floor(log2(n)) for 1 <= n < 2^30
ILog(n) == CHOOSE m \in 0 .. 29 : Pow2(m) <= n /\ n < Pow2(m + 1)

\* floor(log2(a/res)) for a >= 1: the binary exponent of the float a/res
FLog(a, res) ==
    IF a >= res
    THEN CHOOSE f \in 0 .. 20 : res * Pow2(f) <= a /\ a < res * Pow2(f + 1)
    ELSE -(CHOOSE g \in 1 .. 10 : a * Pow2(g) >= res /\ a * Pow2(g - 1) < res)

\* (x * 2^cnt) mod m for m < 2^16, fifteen doublings at a time
RECURSIVE DblMod(_, _, _)
DblMod(x, cnt, m) ==
    IF cnt <= 15 THEN ((x % m) * Pow2(cnt)) % m
    ELSE DblMod(((x % m) * 32768) % m, cnt - 15, m)

\* the float nearest to the decimal j/res (a literal, an argument, or the
\* result of round(x, 2) / of a correctly rounded division raw/res)
Dec(j, res) ==
    IF j = 0 THEN [n |-> 0, e |-> 0]
    ELSE LET a  == Abs(j)
             r  == DblMod(a, 52 - FLog(a, res), res)
             sr == IF 2 * r < res THEN r ELSE r - res
         IN  [n |-> j, e |-> IF j > 0 THEN sr ELSE -sr]

\* x < y on floats
Lt(x, y) == x.n < y.n \/ (x.n = y.n /\ x.e > y.e)

\* int(x * res): the float product rounded to nearest, then truncated
TruncMul(x, res) ==
    IF x.n = 0 THEN 0
    ELSE LET a   == Abs(x.n)
             ea  == IF x.n > 0 THEN x.e ELSE -x.e
             m   == ILog(a)
             thr == Pow2(m - FLog(a, res) - 1)
             low == IF Pow2(m) = a THEN 2 * ea > thr ELSE ea > thr
             t   == IF low THEN a - 1 ELSE a
         IN  IF x.n > 0 THEN t ELSE -t

\* x + 2 in float arithmetic (x on the grid of res)
AddTwo(x, res) ==
    LET k == x.n
        n == k + 2 * res
    IN  IF k = 0 THEN [n |-> n, e |-> 0]
        ELSE LET a  == Abs(k)
                 f  == FLog(a, res)
                 t  == FLog(n, res) - f
             IN  IF t <= 0 THEN [n |-> n, e |-> x.e * Pow2(-t)]
                 ELSE LET m2   == Pow2(t + 1)
                          R    == DblMod(a, 52 - f, res * m2)
                          ra   == IF k > 0 THEN x.e ELSE -x.e
                          q    == ((R - ra) \div res) % m2
                          N2   == IF k > 0 THEN q ELSE (m2 - q) % m2
                          lo   == N2 % Pow2(t)
                          half == Pow2(t - 1)
                          rho  == IF lo < half THEN lo
                                  ELSE IF lo > half THEN lo - Pow2(t)
                                  ELSE IF N2 >= Pow2(t) THEN -half ELSE half
                      IN  [n |-> n, e |-> (x.e + res * rho) \div Pow2(t)]

\* int(x): truncation toward zero of a float on the grid of res
TruncInt(x, res) == IF x.n >= 0 THEN x.n \div res ELSE -((-x.n) \div res)

\* round((raw / in_volts_resolution) / 1.1 - 1.5, 2)
MaxSetVoltageOf(raw) == Dec((20 * raw + 11) \div 22 - 150, 100)


\* hi << 16 | lo
Combine32(hi, lo) == hi * 65536 + lo

Zero == [n |-> 0, e |-> 0]

\* ------------------------------------------------------------------------
\* State
\* ------------------------------------------------------------------------
VARIABLES
    dev,        \* the device's holding registers 0..119
    h,          \* the fields of the RK6006 object
    status,     \* "new" (not constructed), "ready", "exited" (exit(0) was called)
    op,         \* the public or private method being executed, "none" when idle
    arg,        \* its argument
    pend,       \* transport requests the method still has to complete; the head is in flight
    acc,        \* register values returned so far to the method
    tries,      \* consecutive failures of the head request (= _write_register recursion depth)
    stage,      \* "idle", "run", "done" (returned), "error" (an exception left the method)
    ret,        \* the returned value
    err,        \* the exception that left the method
    log,        \* every transport request of the current call, with its outcome, in order
    report,     \* the lines printed by the current call
    h0,         \* the fields of the object when the current call started
    lastVin,    \* register 14 as last read by __init__ / get_input_voltage / update_max_set_voltage
    lastVinAny, \* register 14 as last read by any of those or by print_status
    snaps,      \* register pairs the device has shown during the current two-register getter
    nset        \* setter calls made so far

vars == <<dev, h, status, op, arg, pend, acc, tries, stage, ret, err, log, report, h0,
          lastVin, lastVinAny, snaps, nset>>

\* ------------------------------------------------------------------------
\* The device
\* ------------------------------------------------------------------------
Addrs == 0 .. (RegistersMaxLen - 1)

InputRaw == {100, 1200}
TypeRaw == {ExpectedType, 12345}

\* two coherent measurement states of the device
MeasureA == [hi |-> 0, lo |-> 65535, sign |-> 0, mag |-> 2]
MeasureB == [hi |-> 1, lo |-> 0, sign |-> 1, mag |-> 5]
Measures == {MeasureA, MeasureB}

HiRegs == {12, 38, 40}
LoRegs == {13, 39, 41}
SignRegs == {4, 6, 34, 36}
MagRegs == {5, 7, 35, 37}

WithMeasure(d, m) ==
    [a \in Addrs |->
        IF a \in HiRegs THEN m.hi
        ELSE IF a \in LoRegs THEN m.lo
        ELSE IF a \in SignRegs THEN m.sign
        ELSE IF a \in MagRegs THEN m.mag
        ELSE d[a]]

DevInit(type, vin) ==
    WithMeasure(
        [a \in Addrs |->
            IF a = 0 THEN type
            ELSE IF a = 1 THEN 3
            ELSE IF a = 2 THEN 7
            ELSE IF a = 3 THEN 128
            ELSE IF a = 14 THEN vin
            ELSE IF a >= 80 THEN 1000 + a
            ELSE 0],
        MeasureA)

\* read_registers(start, cnt) answered by the device
Regs(d, start, cnt) == [i \in 1 .. cnt |-> d[start + i - 1]]

\* regs[a] in the source, for a list that starts at register 0
R(regs, a) == regs[a + 1]

\* ------------------------------------------------------------------------
\* Transport requests
\* ------------------------------------------------------------------------
ReadOne(register) == [kind |-> "read_register", addr |-> register, cnt |-> 1, val |-> 0]
ReadMany(start, length) == [kind |-> "read_registers", addr |-> start, cnt |-> length, val |-> 0]
WriteOne(register, value) == [kind |-> "write_register", addr |-> register, cnt |-> 1, val |-> value]

\* _read_register: one read_register request (the retry loop is ReadNoResponse)
_read_register(register) == <<ReadOne(register)>>

\* _read_registers: the read_registers requests it performs, in order
RECURSIVE _read_registers(_, _, _)
_read_registers(start, length, chunksize) ==
    IF length > chunksize
    THEN _read_registers(start, chunksize, DefaultChunk)
         \o _read_registers(start + chunksize, length - chunksize, DefaultChunk)
    ELSE <<ReadMany(start, length)>>

\* _write_register: one write_register request (the retry is WriteNoResponse)
_write_register(register, value) == <<WriteOne(register, value)>>

\* ------------------------------------------------------------------------
\* The handle
\* ------------------------------------------------------------------------
NoHandle ==
    [sn |-> 0, fw |-> Zero, type |-> 0,
     volts_resolution |-> 0, amps_resolution |-> 0, power_resolution |-> 0,
     in_volts_resolution |-> 0, model |-> "",
     max_set_voltage |-> Zero, max_set_current |-> Zero, max_ocp_current |-> Zero,
     registers_max_len |-> 0]

Init ==
    /\ \E type \in TypeRaw, vin \in InputRaw : dev = DevInit(type, vin)
    /\ h = NoHandle
    /\ status = "new"
    /\ op = "none" /\ arg = <<>> /\ pend = <<>> /\ acc = <<>> /\ tries = 0
    /\ stage = "idle" /\ ret = <<>> /\ err = "none"
    /\ log = <<>> /\ report = <<>> /\ h0 = NoHandle
    /\ lastVin = -1 /\ lastVinAny = -1
    /\ snaps = {}
    /\ nset = 0

\* ------------------------------------------------------------------------
\* What each method does with the registers it has read
\* ------------------------------------------------------------------------
Result(hh, r, lines, ex) == [h |-> hh, ret |-> r, report |-> lines, exit |-> ex]

MismatchLines(type) ==
    << <<"Detected Type", type>>, <<"Expected Type", ExpectedType>>, <<"Exit the program!", 0>> >>

\* the fields __init__ assigns from regs = self._read_registers(0, 15)
init_fields(regs) ==
    [sn |-> Combine32(R(regs, 1), R(regs, 2)),
     fw |-> Dec(R(regs, 3), 100),
     type |-> R(regs, 0),
     volts_resolution |-> 100,
     amps_resolution |-> 1000,
     power_resolution |-> 100,
     in_volts_resolution |-> 100,
     model |-> "RK6006",
     max_set_voltage |-> MaxSetVoltageOf(R(regs, 14)),
     max_set_current |-> Dec(6000, 1000),
     max_ocp_current |-> Dec(6200, 1000),
     registers_max_len |-> RegistersMaxLen]

\* Faulty variant: __init__ without the identity check
init_done_unchecked(regs) == Result(init_fields(regs), <<>>, <<>>, FALSE)

\* __init__: the assignments, then the identity check
init_done(regs) ==
    LET hh == init_fields(regs)
    IN  IF hh.type # ExpectedType
        THEN Result(hh, <<>>, MismatchLines(hh.type), TRUE)
        ELSE Result(hh, <<>>, <<>>, FALSE)

Signed(sign, mag) == IF sign # 0 THEN -mag ELSE mag

MemoryLine(hh, regs, m, offset) ==
    <<"M", m,
      Dec(R(regs, offset), hh.volts_resolution),
      Dec(R(regs, offset + 1), hh.amps_resolution),
      Dec(R(regs, offset + 2), hh.volts_resolution),
      Dec(R(regs, offset + 3), hh.amps_resolution)>>

StatusLines(hh, regs) ==
    LET ext == Signed(R(regs, 34), R(regs, 35))
    IN  << <<"Model", hh.model>>,
           <<"SN", Combine32(R(regs, 1), R(regs, 2))>>,
           <<"FW", Dec(R(regs, 3), 100)>>,
           <<"Input", Dec(R(regs, 14), hh.in_volts_resolution)>>,
           <<"Int.Temp", Signed(R(regs, 4), R(regs, 5))>>,
           <<"Ext.Temp", IF ext < -40 THEN "--" ELSE ext>>,
           <<"Voltage", Dec(R(regs, 10), hh.volts_resolution)>>,
           <<"Current", Dec(R(regs, 11), hh.amps_resolution)>>,
           <<"Power", Dec(Combine32(R(regs, 12), R(regs, 13)), hh.power_resolution)>>,
           <<"Set Voltage", Dec(R(regs, 8), hh.volts_resolution)>>,
           <<"Set Current", Dec(R(regs, 9), hh.amps_resolution)>>,
           <<"OVP", Dec(R(regs, 82), hh.volts_resolution)>>,
           <<"OCP", Dec(R(regs, 83), hh.amps_resolution)>>,
           <<"Charge", Dec(Combine32(R(regs, 38), R(regs, 39)), 1000)>>,
           <<"Energy", Dec(Combine32(R(regs, 40), R(regs, 41)), 1000)>> >>
        \o [i \in 1 .. 10 |-> MemoryLine(hh, regs, i - 1, (i - 1) * 4 + 80)]

\* Faulty variant: print_status that also refreshes max_set_voltage from register 14
print_status_done_rebounds(hh, regs) ==
    LET h1 == [hh EXCEPT !.type = R(regs, 0),
                         !.max_set_voltage = MaxSetVoltageOf(R(regs, 14))]
    IN  IF h1.type # ExpectedType
        THEN Result(h1, <<>>, MismatchLines(h1.type), TRUE)
        ELSE Result(h1, <<>>, StatusLines(h1, regs), FALSE)

\* print_status, after regs = self._read_registers(0, self.registers_max_len)
print_status_done(hh, regs) ==
    LET h1 == [hh EXCEPT !.type = R(regs, 0)]
    IN  IF h1.type # ExpectedType
        THEN Result(h1, <<>>, MismatchLines(h1.type), TRUE)
        ELSE Result(h1, <<>>, StatusLines(h1, regs), FALSE)

\* Faulty variant: get_input_voltage that only returns the voltage
get_input_voltage_done_keeps_bound(hh, regs) ==
    Result(hh, <<Dec(regs[1], hh.in_volts_resolution)>>, <<>>, FALSE)

\* get_input_voltage, after self._read_register(14)
get_input_voltage_done(hh, regs) ==
    Result([hh EXCEPT !.max_set_voltage = MaxSetVoltageOf(regs[1])],
           <<Dec(regs[1], hh.in_volts_resolution)>>, <<>>, FALSE)

\* update_max_set_voltage: get_input_voltage(), then the same assignment again
update_max_set_voltage_done(hh, regs) ==
    LET g == get_input_voltage_done(hh, regs)
    IN  Result([g.h EXCEPT !.max_set_voltage = MaxSetVoltageOf(regs[1])], <<>>, <<>>, FALSE)

\* Faulty variant: get_saved_memory with the two resolutions exchanged
get_saved_memory_done_swapped(hh, regs) ==
    Result(hh,
           <<Dec(regs[1], hh.amps_resolution), Dec(regs[2], hh.volts_resolution),
             Dec(regs[3], hh.amps_resolution), Dec(regs[4], hh.volts_resolution)>>,
           <<>>, FALSE)

\* get_saved_memory, after regs = self._read_registers(mem * 4 + 80, 4)
get_saved_memory_done(hh, regs) ==
    Result(hh,
           <<Dec(regs[1], hh.volts_resolution), Dec(regs[2], hh.amps_resolution),
             Dec(regs[3], hh.volts_resolution), Dec(regs[4], hh.amps_resolution)>>,
           <<>>, FALSE)

\* print_saved_memory, after regs = self._read_registers(mem * 4 + 80, 4)
print_saved_memory_done(hh, mem, regs) ==
    Result(hh, <<>>, << MemoryLine(hh, regs, mem, 0) >>, FALSE)

\* the one-register getters: register, and what the raw word is divided by
SingleGetters ==
    {"get_set_voltage", "get_output_voltage", "get_set_current", "get_output_current",
     "get_ovp_voltage", "get_ocp_current", "get_enable_state", "get_protection_status",
     "get_current_output_mode", "get_backlight", "get_take_out", "get_boot_power",
     "get_buzzer"}

VoltGetters == {"get_set_voltage", "get_output_voltage", "get_ovp_voltage"}
AmpGetters == {"get_set_current", "get_output_current", "get_ocp_current"}

single_getter_done(hh, name, regs) ==
    Result(hh,
           IF name \in VoltGetters THEN <<Dec(regs[1], hh.volts_resolution)>>
           ELSE IF name \in AmpGetters THEN <<Dec(regs[1], hh.amps_resolution)>>
           ELSE <<regs[1]>>,
           <<>>, FALSE)

\* the two-register getters
WordGetters == {"get_output_power", "get_capacity_ah", "get_energy_wh"}
TempGetters == {"get_temp_internal", "get_temp_f_internal", "get_temp_external",
                "get_temp_f_external"}
PairGetters == WordGetters \cup TempGetters

PairRegs(name) ==
    CASE name = "get_output_power" -> <<12, 13>>
      [] name = "get_capacity_ah" -> <<38, 39>>
      [] name = "get_energy_wh" -> <<40, 41>>
      [] name = "get_temp_internal" -> <<4, 5>>
      [] name = "get_temp_f_internal" -> <<6, 7>>
      [] name = "get_temp_external" -> <<34, 35>>
      [] name = "get_temp_f_external" -> <<36, 37>>

\* the value a two-register getter computes from the two words it was given
PairValue(hh, name, first, second) ==
    IF name = "get_output_power" THEN Dec(Combine32(first, second), hh.power_resolution)
    ELSE IF name \in WordGetters THEN Dec(Combine32(first, second), 1000)
    ELSE Signed(first, second)

pair_getter_done(hh, name, regs) ==
    Result(hh, <<PairValue(hh, name, regs[1], regs[2])>>, <<>>, FALSE)

Done(name, a, hh, regs) ==
    CASE name = "__init__" -> init_done(regs)
      [] name = "print_status" -> print_status_done(hh, regs)
      [] name = "get_input_voltage" -> get_input_voltage_done(hh, regs)
      [] name = "update_max_set_voltage" -> update_max_set_voltage_done(hh, regs)
      [] name = "get_saved_memory" -> get_saved_memory_done(hh, regs)
      [] name = "print_saved_memory" -> print_saved_memory_done(hh, a[1], regs)
      [] name \in SingleGetters -> single_getter_done(hh, name, regs)
      [] name \in PairGetters -> pair_getter_done(hh, name, regs)
      [] name = "_read_registers" -> Result(hh, regs, <<>>, FALSE)
      [] name = "_read_register" -> Result(hh, <<regs[1]>>, <<>>, FALSE)
      [] OTHER -> Result(hh, <<>>, <<>>, FALSE)

\* ------------------------------------------------------------------------
\* Arguments the methods are called with
\* ------------------------------------------------------------------------
VoltArgs == {-100, 29, 7000}       \* volts, in 1/100
OvpArgs == {-100, 7000}            \* volts, in 1/100
AmpArgs == {-1000, 7000}           \* amps, in 1/1000
BacklightArgs == {-1, 7}
FlagArgs == {-100, 50, 250}        \* the flag, in 1/100 (int() truncates it)
MemArgs == {0, 3, 9}
ChunkStarts == {0, 80}
ChunkLengths == {1, 25, 40, 50, 51, 70, 100, 120}
ChunkSizes == {10, 50, 80}

\* ------------------------------------------------------------------------
\* Calling a method: it runs up to its first transport request
\* ------------------------------------------------------------------------
Setters ==
    {"set_voltage", "set_current", "set_ovp_voltage", "set_ocp_current", "set_backlight",
     "set_enable_state", "set_take_out", "set_boot_power", "set_buzzer"}

Begin(name, a, plan) ==
    /\ stage = "idle"
    /\ name \in Setters => nset < MaxSets
    /\ nset' = IF name \in Setters THEN nset + 1 ELSE nset
    /\ op' = name /\ arg' = a /\ pend' = plan
    /\ acc' = <<>> /\ tries' = 0 /\ stage' = "run"
    /\ ret' = <<>> /\ err' = "none" /\ log' = <<>> /\ report' = <<>>
    /\ h0' = h
    /\ snaps' = IF name \in PairGetters
                THEN {<<dev[PairRegs(name)[1]], dev[PairRegs(name)[2]]>>}
                ELSE {}
    /\ UNCHANGED <<dev, h, status, lastVin, lastVinAny>>

Call(name, a, plan) == status = "ready" /\ Begin(name, a, plan)

__init__ == status = "new" /\ Begin("__init__", <<>>, _read_registers(0, 15, DefaultChunk))

update_max_set_voltage == Call("update_max_set_voltage", <<>>, _read_register(14))

print_saved_memory ==
    \E mem \in MemArgs :
        Call("print_saved_memory", <<mem>>, _read_registers(mem * 4 + 80, 4, DefaultChunk))

get_saved_memory ==
    \E mem \in MemArgs :
        Call("get_saved_memory", <<mem>>, _read_registers(mem * 4 + 80, 4, DefaultChunk))

print_status ==
    Call("print_status", <<>>, _read_registers(0, h.registers_max_len, DefaultChunk))

get_input_voltage == Call("get_input_voltage", <<>>, _read_register(14))

get_set_voltage == Call("get_set_voltage", <<>>, _read_register(8))

\* if value < 0: value = 0 ; if value > upper: value = upper
Clamp(value, upper) ==
    LET v1 == IF Lt(value, Zero) THEN Zero ELSE value
    IN  IF Lt(upper, v1) THEN upper ELSE v1

ClampInt(value, upper) ==
    LET v1 == IF value < 0 THEN 0 ELSE value
    IN  IF v1 > upper THEN upper ELSE v1

set_voltage ==
    \E v \in VoltArgs :
        LET value == Clamp(Dec(v, 100), h.max_set_voltage)
        IN  Call("set_voltage", <<v>>,
                 _write_register(8, TruncMul(value, h.volts_resolution)))

get_output_voltage == Call("get_output_voltage", <<>>, _read_register(10))

get_set_current == Call("get_set_current", <<>>, _read_register(9))

set_current ==
    \E v \in AmpArgs :
        LET value == Clamp(Dec(v, 1000), h.max_set_current)
        IN  Call("set_current", <<v>>,
                 _write_register(9, TruncMul(value, h.amps_resolution)))

get_output_current == Call("get_output_current", <<>>, _read_register(11))

get_output_power ==
    Call("get_output_power", <<>>, _read_register(12) \o _read_register(13))

get_capacity_ah ==
    Call("get_capacity_ah", <<>>, _read_register(38) \o _read_register(39))

get_energy_wh ==
    Call("get_energy_wh", <<>>, _read_register(40) \o _read_register(41))

get_ovp_voltage == Call("get_ovp_voltage", <<>>, _read_register(82))

set_ovp_voltage ==
    \E v \in OvpArgs :
        LET value == Clamp(Dec(v, 100), AddTwo(h.max_set_voltage, 100))
        IN  Call("set_ovp_voltage", <<v>>,
                 _write_register(82, TruncMul(value, h.volts_resolution)))

get_ocp_current == Call("get_ocp_current", <<>>, _read_register(83))

set_ocp_current ==
    \E v \in AmpArgs :
        LET value == Clamp(Dec(v, 1000), h.max_ocp_current)
        IN  Call("set_ocp_current", <<v>>,
                 _write_register(83, TruncMul(value, h.amps_resolution)))

get_temp_internal ==
    Call("get_temp_internal", <<>>, _read_register(4) \o _read_register(5))

get_temp_f_internal ==
    Call("get_temp_f_internal", <<>>, _read_register(6) \o _read_register(7))

get_temp_external ==
    Call("get_temp_external", <<>>, _read_register(34) \o _read_register(35))

get_temp_f_external ==
    Call("get_temp_f_external", <<>>, _read_register(36) \o _read_register(37))

get_enable_state == Call("get_enable_state", <<>>, _read_register(18))

set_enable_state ==
    \E v \in FlagArgs :
        Call("set_enable_state", <<v>>,
             _write_register(18, ClampInt(TruncInt(Dec(v, 100), 100), 1)))

get_protection_status == Call("get_protection_status", <<>>, _read_register(16))

get_current_output_mode == Call("get_current_output_mode", <<>>, _read_register(17))

get_backlight == Call("get_backlight", <<>>, _read_register(72))

set_backlight ==
    \E v \in BacklightArgs :
        Call("set_backlight", <<v>>, _write_register(72, ClampInt(v, 5)))

get_take_out == Call("get_take_out", <<>>, _read_register(67))

set_take_out ==
    \E v \in FlagArgs :
        Call("set_take_out", <<v>>,
             _write_register(67, ClampInt(TruncInt(Dec(v, 100), 100), 1)))

get_boot_power == Call("get_boot_power", <<>>, _read_register(68))

set_boot_power ==
    \E v \in FlagArgs :
        Call("set_boot_power", <<v>>,
             _write_register(68, ClampInt(TruncInt(Dec(v, 100), 100), 1)))

get_buzzer == Call("get_buzzer", <<>>, _read_register(69))

set_buzzer ==
    \E v \in FlagArgs :
        Call("set_buzzer", <<v>>,
             _write_register(69, ClampInt(TruncInt(Dec(v, 100), 100), 1)))

\* the private access methods, called directly
call_read_register ==
    \E register \in {8, 14} : Call("_read_register", <<register>>, _read_register(register))

call_read_registers ==
    \E start \in ChunkStarts, length \in ChunkLengths, chunksize \in ChunkSizes :
        /\ start + length <= RegistersMaxLen
        /\ Call("_read_registers", <<start, length, chunksize>>,
                _read_registers(start, length, chunksize))

call_write_register ==
    \E value \in {0, 5} : Call("_write_register", <<72, value>>, _write_register(72, value))

\* ------------------------------------------------------------------------
\* The transport answers (or fails) the request in flight
\* ------------------------------------------------------------------------
IsRead(req) == req.kind \in {"read_register", "read_registers"}

Sees14(req) == req.addr <= 14 /\ 14 < req.addr + req.cnt

BoundUpdaters == {"__init__", "get_input_voltage", "update_max_set_voltage"}

\* the log with one more attempt; n counts consecutive identical attempts
Logged(req, outcome) ==
    IF log # <<>> /\ log[Len(log)].req = req /\ log[Len(log)].res = outcome
    THEN [log EXCEPT ![Len(log)].n = @ + 1]
    ELSE Append(log, [req |-> req, res |-> outcome, n |-> 1])

\* an exception leaves the method
Raise(name) ==
    /\ err' = name /\ stage' = "error" /\ pend' = <<>> /\ acc' = <<>> /\ tries' = 0
    /\ UNCHANGED <<dev, h, status, op, arg, ret, report, h0, lastVin, lastVinAny, snaps, nset>>

\* the same request is issued again
Retry ==
    /\ tries' = tries + 1
    /\ UNCHANGED <<dev, h, status, op, arg, pend, acc, stage, ret, err, report, h0,
                   lastVin, lastVinAny, snaps, nset>>

\* read_register / read_registers returns: the method goes on to its next
\* request, or to its end
ReadOk ==
    /\ stage = "run" /\ pend # <<>> /\ IsRead(Head(pend))
    /\ LET req  == Head(pend)
           all  == acc \o Regs(dev, req.addr, req.cnt)
           rest == Tail(pend)
       IN  /\ log' = Logged(req, "ok")
           /\ tries' = 0
           /\ lastVin' = IF Sees14(req) /\ op \in BoundUpdaters THEN dev[14] ELSE lastVin
           /\ lastVinAny' = IF Sees14(req) /\ op \in BoundUpdaters \cup {"print_status"}
                            THEN dev[14] ELSE lastVinAny
           /\ pend' = rest
           /\ IF rest # <<>>
              THEN /\ acc' = all
                   /\ UNCHANGED <<h, status, stage, ret, err, report>>
              ELSE LET d == Done(op, arg, h, all)
                   IN  /\ acc' = <<>>
                       /\ h' = d.h /\ ret' = d.ret /\ report' = d.report
                       /\ status' = IF d.exit THEN "exited"
                                    ELSE IF op = "__init__" THEN "ready" ELSE status
                       /\ stage' = IF d.exit THEN "error" ELSE "done"
                       /\ err' = IF d.exit THEN "SystemExit" ELSE "none"
    /\ UNCHANGED <<dev, op, arg, h0, snaps, nset>>

\* except NoResponseError: continue
ReadNoResponse ==
    /\ stage = "run" /\ pend # <<>> /\ IsRead(Head(pend))
    /\ tries < MaxFail
    /\ log' = Logged(Head(pend), "NoResponseError")
    /\ Retry

\* except InvalidResponseError: continue, in _read_registers only
ReadInvalidResponse ==
    /\ stage = "run" /\ pend # <<>> /\ IsRead(Head(pend))
    /\ tries < MaxFail
    /\ log' = Logged(Head(pend), "InvalidResponseError")
    /\ IF Head(pend).kind = "read_registers" THEN Retry ELSE Raise("InvalidResponseError")

\* write_register returns
WriteOk ==
    /\ stage = "run" /\ pend # <<>> /\ ~IsRead(Head(pend))
    /\ Head(pend).val \in 0 .. 65535
    /\ dev' = [dev EXCEPT ![Head(pend).addr] = Head(pend).val]
    /\ log' = Logged(Head(pend), "ok")
    /\ pend' = Tail(pend)
    /\ stage' = IF Tail(pend) = <<>> THEN "done" ELSE stage
    /\ tries' = 0
    /\ UNCHANGED <<h, status, op, arg, acc, ret, err, report, h0, lastVin, lastVinAny, snaps, nset>>

\* write_register refuses a value that is not an unsigned 16-bit word
WriteRejected ==
    /\ stage = "run" /\ pend # <<>> /\ ~IsRead(Head(pend))
    /\ Head(pend).val \notin 0 .. 65535
    /\ log' = Logged(Head(pend), "ValueError")
    /\ Raise("ValueError")

\* except NoResponseError: return self._write_register(register, value)
WriteNoResponse ==
    /\ stage = "run" /\ pend # <<>> /\ ~IsRead(Head(pend))
    /\ Head(pend).val \in 0 .. 65535
    /\ log' = Logged(Head(pend), "NoResponseError")
    /\ IF CallerFrames + tries + 2 > RecursionLimit THEN Raise("RecursionError") ELSE Retry

\* the caller takes the result (or the exception) and is free to call again
Return ==
    /\ status = "ready" /\ stage \in {"done", "error"}
    /\ op' = "none" /\ arg' = <<>> /\ pend' = <<>> /\ acc' = <<>> /\ tries' = 0
    /\ stage' = "idle" /\ ret' = <<>> /\ err' = "none" /\ log' = <<>> /\ report' = <<>>
    /\ h0' = h /\ snaps' = {}
    /\ UNCHANGED <<dev, h, status, lastVin, lastVinAny, nset>>

\* ------------------------------------------------------------------------
\* The device changes between transactions
\* ------------------------------------------------------------------------
DeviceInputChange ==
    /\ \E v \in InputRaw \ {dev[14]} : dev' = [dev EXCEPT ![14] = v]
    /\ UNCHANGED <<h, status, op, arg, pend, acc, tries, stage, ret, err, log, report, h0,
                   lastVin, lastVinAny, snaps, nset>>

DeviceTypeChange ==
    /\ \E t \in TypeRaw \ {dev[0]} : dev' = [dev EXCEPT ![0] = t]
    /\ UNCHANGED <<h, status, op, arg, pend, acc, tries, stage, ret, err, log, report, h0,
                   lastVin, lastVinAny, snaps, nset>>

DeviceMeasure ==
    /\ \E m \in Measures : WithMeasure(dev, m) # dev /\ dev' = WithMeasure(dev, m)
    /\ snaps' = IF stage = "run" /\ op \in PairGetters
                THEN snaps \cup {<<dev'[PairRegs(op)[1]], dev'[PairRegs(op)[2]]>>}
                ELSE snaps
    /\ UNCHANGED <<h, status, op, arg, pend, acc, tries, stage, ret, err, log, report, h0,
                   lastVin, lastVinAny, nset>>

\* ------------------------------------------------------------------------
\* Specifications
\* ------------------------------------------------------------------------
\* the driver on a transport that answers every request
Next ==
    \/ __init__ \/ print_status \/ get_input_voltage \/ update_max_set_voltage
    \/ get_saved_memory
    \/ set_voltage \/ set_current \/ set_ovp_voltage \/ set_ocp_current
    \/ set_backlight \/ set_enable_state \/ set_take_out \/ set_boot_power \/ set_buzzer
    \/ ReadOk \/ WriteOk \/ WriteRejected \/ Return
    \/ DeviceInputChange \/ DeviceTypeChange

Spec == Init /\ [][Next]_vars

\* the driver on a transport that fails: the retry behaviour
NextFault ==
    \/ __init__ \/ print_status \/ print_saved_memory \/ get_saved_memory
    \/ get_set_voltage \/ get_output_voltage \/ get_set_current \/ get_output_current
    \/ get_ovp_voltage \/ get_ocp_current \/ get_enable_state \/ get_protection_status
    \/ get_current_output_mode \/ get_backlight \/ get_take_out \/ get_boot_power
    \/ get_buzzer \/ get_output_power \/ get_temp_internal
    \/ set_backlight
    \/ call_read_register \/ call_write_register
    \/ ReadOk \/ ReadNoResponse \/ ReadInvalidResponse \/ WriteOk \/ WriteNoResponse
    \/ Return

SpecFault == Init /\ [][NextFault]_vars

\* _read_registers called with every start, length and chunk size
NextChunk == __init__ \/ call_read_registers \/ ReadOk \/ Return

SpecChunk == Init /\ [][NextChunk]_vars

\* the two-register getters against a device whose measurements move
NextSnapshot ==
    \/ __init__
    \/ get_output_power \/ get_capacity_ah \/ get_energy_wh
    \/ get_temp_internal \/ get_temp_f_internal \/ get_temp_external \/ get_temp_f_external
    \/ ReadOk \/ Return \/ DeviceMeasure

SpecSnapshot == Init /\ [][NextSnapshot]_vars

\* ------------------------------------------------------------------------
\* Properties
\* ------------------------------------------------------------------------
\* the requests of the current call: those answered or failed, and those to come
Requests == {log[i].req : i \in DOMAIN log} \cup {pend[i] : i \in DOMAIN pend}

WriteRequests == {req \in Requests : ~IsRead(req)}

RECURSIVE Attempts(_)
Attempts(l) == IF l = <<>> THEN 0 ELSE l[1].n + Attempts(Tail(l))

\* upperBound x resolution of a setter, from the bound cached when it was called
UpperRaw(name) ==
    CASE name = "set_voltage" -> h0.max_set_voltage.n
      [] name = "set_ovp_voltage" -> h0.max_set_voltage.n + 200
      [] name = "set_current" -> 6000
      [] name = "set_ocp_current" -> 6200
      [] name = "set_backlight" -> 5
      [] OTHER -> 1

\* C1: no setter call is rejected, and the raw value a setter writes lies in
\* [0, upperBound x resolution]; in particular it is never negative.
C1_SettersClampIntoRange ==
    op \in Setters =>
        /\ err = "none"
        /\ \A req \in Requests : ~IsRead(req) /\ req.val >= 0 /\ req.val <= UpperRaw(op)

ClampRaw(v, k) == IF v < 0 THEN 0 ELSE IF v > k THEN k ELSE v

\* C2: set_voltage(v) writes clamp(v, 0, max_set_voltage) x 100 to register 8:
\* 0 for v < 0, max_set_voltage x 100 for v > max_set_voltage, for every cached bound.
C2_SetVoltageWritesClamp ==
    op = "set_voltage" =>
        \A req \in Requests :
            req.addr = 8 /\ req.val = ClampRaw(arg[1], h0.max_set_voltage.n)

\* C3 (as stated): max_set_voltage is round(V/1.1 - 1.5, 2) for the input voltage V
\* last read by construction, get_input_voltage, update_max_set_voltage or print_status.
C3_BoundFollowsEveryRead ==
    status = "ready" => h.max_set_voltage = MaxSetVoltageOf(lastVinAny)

\* C3 (amended): max_set_voltage is round(V/1.1 - 1.5, 2) for the input voltage V
\* last read by construction, get_input_voltage or update_max_set_voltage; the
\* reading print_status takes of register 14 does not change it.
C3_BoundFollowsUpdatingReads ==
    status = "ready" => h.max_set_voltage = MaxSetVoltageOf(lastVin)

C3_Witness ==
    /\ status = "ready" /\ op = "get_input_voltage" /\ stage = "done"
    /\ h.max_set_voltage # h0.max_set_voltage

MismatchLabels == {"Detected Type", "Expected Type", "Exit the program!"}

\* C4: an identity mismatch is fatal. A handle is usable only with device type
\* 60066; once exit(0) was called, at construction or in print_status, nothing is
\* in flight or issued any more and no device data was reported; every write is
\* issued by a handle whose last checked type was 60066.
C4_IdentityMismatchIsFatal ==
    /\ status = "ready" => h.type = ExpectedType
    /\ status = "new" => op \in {"none", "__init__"} /\ WriteRequests = {}
    /\ status = "exited" =>
          /\ op \in {"__init__", "print_status"}
          /\ h.type # ExpectedType
          /\ stage = "error" /\ err = "SystemExit" /\ pend = <<>>
          /\ \A i \in DOMAIN report : report[i][1] \in MismatchLabels
    /\ WriteRequests # {} => status = "ready" /\ h.type = ExpectedType
    /\ stage = "run" => status = "ready" \/ (status = "new" /\ op = "__init__")

C4_Witness ==
    /\ status = "exited" /\ op = "print_status" /\ h.type = 12345
    /\ h.sn = Combine32(3, 7)

\* C5: _read_registers(start, length, c) issues exactly ceil(length / c) reads,
\* none of more than c registers, contiguous and ascending from start to
\* start + length - 1, and returns the length registers in address order.
C5_ChunkedRead ==
    (op = "_read_registers" /\ stage = "done") =>
        LET start  == arg[1]
            length == arg[2]
            c      == arg[3]
        IN  /\ Attempts(log) = (length + c - 1) \div c
            /\ \A i \in DOMAIN log : log[i].req.cnt >= 1 /\ log[i].req.cnt <= c
            /\ log[1].req.addr = start
            /\ \A i \in 1 .. (Len(log) - 1) :
                   log[i + 1].req.addr = log[i].req.addr + log[i].req.cnt
            /\ log[Len(log)].req.addr + log[Len(log)].req.cnt = start + length
            /\ ret = Regs(dev, start, length)

\* C6: no NoResponse or InvalidResponse of the transport ever leaves a getter, a
\* setter, the constructor or the dump.
C6_NoTransportFaultSurfaces ==
    err \notin {"NoResponseError", "InvalidResponseError"}

\* C7: with only NoResponse failures, a request is repeated unchanged until it
\* succeeds, the call then returns the successful response, and no number of
\* failures makes the call report an error.
C7_RetryUntilSuccess ==
    (\A i \in DOMAIN log : log[i].res \in {"ok", "NoResponseError"}) =>
        /\ err \in {"none", "SystemExit"}
        /\ stage = "done" =>
              \A i \in DOMAIN log :
                  log[i].res = "NoResponseError" =>
                      /\ i < Len(log)
                      /\ log[i + 1].req = log[i].req
                      /\ log[i + 1].res = "ok" /\ log[i + 1].n = 1
        /\ (stage = "done" /\ op = "_read_register") => ret = <<dev[arg[1]]>>

\* C8: print_status issues no write, reads only registers 0..119, and changes
\* no field of the handle but the cached device type.
C8_PrintStatusReadOnly ==
    op = "print_status" =>
        /\ \A req \in Requests :
               IsRead(req) /\ req.addr >= 0 /\ req.addr + req.cnt <= 120
        /\ [h EXCEPT !.type = h0.type] = h0

C8_Witness ==
    /\ op = "print_status" /\ stage = "done" /\ Len(report) = 25
    /\ lastVinAny # lastVin

\* C9: get_saved_memory(n) reads registers 80+4n .. 83+4n in one transport read,
\* returns (r0/100, r1/1000, r2/100, r3/1000), writes nothing and changes no field;
\* no method writes a preset register except set_ovp_voltage (82) and
\* set_ocp_current (83).
C9_SavedMemory ==
    /\ op = "get_saved_memory" =>
          LET base == 80 + 4 * arg[1]
          IN  /\ Requests \subseteq {ReadMany(base, 4)}
              /\ Attempts(log) <= 1
              /\ h = h0
              /\ stage = "done" =>
                    /\ Attempts(log) = 1
                    /\ ret = <<Dec(dev[base], 100), Dec(dev[base + 1], 1000),
                               Dec(dev[base + 2], 100), Dec(dev[base + 3], 1000)>>
    /\ \A req \in WriteRequests :
          req.addr >= 80 =>
              \/ req.addr = 82 /\ op = "set_ovp_voltage"
              \/ req.addr = 83 /\ op = "set_ocp_current"

C9_Witness ==
    /\ op = "get_saved_memory" /\ arg = <<3>> /\ stage = "done"
    /\ ret[1].n = 1092 /\ ret[4].n = 1095

\* C10: the value a two-register getter returns is the decoding of the register
\* pair as it stood in one single device state during the call.
C10_SnapshotConsistent ==
    (op \in PairGetters /\ stage = "done") =>
        \E p \in snaps : ret = <<PairValue(h, op, p[1], p[2])>>

====
